---------------------------- MODULE Spec2Model ----------------------------
(***************************************************************************)
(* Model of src/bq_agent/agent.py: six tool functions that wrap one call   *)
(* each of the BigQuery client.  A tool invocation is one atomic action    *)
(* (the functions are synchronous and share no state); what the            *)
(* environment does during the call (client construction, the warehouse's  *)
(* answer) is an input of the action.  The call's observable effects are   *)
(* recorded: client handles built, statements built, requests sent, the    *)
(* value returned and the exception raised to the caller, if any.          *)
(* SpecConcurrent runs the same functions statement group by statement     *)
(* group, two invocations interleaved; SpecModule starts before the module *)
(* body has run.                                                           *)
(***************************************************************************)
EXTENDS Integers, Sequences, FiniteSets, TLC

VARIABLES
    pc,         \* "idle": no call in progress; "done": a tool has returned
    tool,       \* name of the tool that ran ("" when idle)
    args,       \* the arguments it was called with
    env,        \* what the environment answered during the call
    clients,    \* number of bigquery.Client handles the call constructed
    built,      \* SQL statements the call constructed, in order
    requests,   \* requests the call sent to the warehouse, in order
    ret,        \* the value returned (NoReturn when idle or raised)
    raised,     \* type name of the exception raised to the caller, "" if none
    warehouse,  \* table id -> [exists, schema]: the dataset's tables
    module,     \* the module object: load state, its two globals, names defined
    frames      \* invocation -> frame of a call that runs step by step

vars == <<pc, tool, args, env, clients, built, requests, ret, raised, warehouse,
          module, frames>>

-----------------------------------------------------------------------------
(* Bounds *)

MaxRows == 2          \* rows in a query result / an insert batch
MaxSetValues == 3     \* entries of an update's set_values mapping
MaxWhereLen == 2      \* characters of a where_clause
MaxAffected == 1      \* num_dml_affected_rows a DML job reports

-----------------------------------------------------------------------------
(* Configuration: the two identifiers read at module load *)

\* os.getenv(name) of a variable that is not set (None)
Unset == "(unset)"

\* not value, for the result of os.getenv
Falsy(value) == value \in {Unset, ""}

ToolNames ==
    {"list_dataset_tables", "get_bigquery_table_schema",
     "run_bigquery_sql_query", "insert_bigquery_rows",
     "update_bigquery_records", "delete_bigquery_records"}

\* the module before its body runs
Unloaded ==
    [state |-> "unloaded", DEFAULT_PROJECT_ID |-> Unset,
     DEFAULT_DATASET_ID |-> Unset, defined |-> {}]

\* ModuleLoad that raises only when both identifiers are missing
ModuleLoadRequiresEither(project, dataset) ==
    IF Falsy(project) /\ Falsy(dataset)
    THEN [state |-> "ValueError", DEFAULT_PROJECT_ID |-> project,
          DEFAULT_DATASET_ID |-> dataset, defined |-> {}]
    ELSE [state |-> "loaded", DEFAULT_PROJECT_ID |-> project,
          DEFAULT_DATASET_ID |-> dataset,
          defined |-> ToolNames \cup {"root_agent"}]

\* the module body, run with the environment holding project and dataset:
\* the two globals are assigned, then the check raises or the tools and
\* the agent are defined
ModuleLoad(project, dataset) ==
    IF Falsy(project) \/ Falsy(dataset)
    THEN [state |-> "ValueError", DEFAULT_PROJECT_ID |-> project,
          DEFAULT_DATASET_ID |-> dataset, defined |-> {}]
    ELSE [state |-> "loaded", DEFAULT_PROJECT_ID |-> project,
          DEFAULT_DATASET_ID |-> dataset,
          defined |-> ToolNames \cup {"root_agent"}]

\* the module's globals, as the tools read them
DEFAULT_PROJECT_ID == module.DEFAULT_PROJECT_ID
DEFAULT_DATASET_ID == module.DEFAULT_DATASET_ID

-----------------------------------------------------------------------------
(* Python values.  type is the runtime type's name, s a text payload and n *)
(* a numeric payload:                                                      *)
(*   date      n = <<year, month, day>>                                    *)
(*   time      n = <<hour, minute, second, microsecond>>                   *)
(*   datetime  n = <<year, month, day, hour, minute, second, microsecond>> *)
(*   Decimal   n = <<sign, exponent>> \o digits  (as Decimal.as_tuple())   *)
(***************************************************************************)

Val(t, s, n) == [type |-> t, s |-> s, n |-> n]

Str(s) == Val("str", s, <<>>)

StrVal      == Str("abc")
BytesVal    == Val("bytes", "raw", <<>>)
IntVal      == Val("int", "", <<42>>)
FloatVal    == Val("float", "", <<15, -1>>)
BoolVal     == Val("bool", "", <<1>>)
DateTimeVal == Val("datetime", "", <<2024, 1, 5, 13, 7, 9, 0>>)
DateVal     == Val("date", "", <<2000, 1, 1>>)
TimeVal     == Val("time", "", <<13, 7, 9, 250000>>)
DecimalVal  == Val("Decimal", "", <<0, -3, 1, 2, 3, 4, 5, 6>>)
NoneVal     == Val("NoneType", "", <<>>)
ListVal     == Val("list", "", <<>>)

\* one value of each runtime type the tools can meet
Values == {StrVal, BytesVal, IntVal, FloatVal, BoolVal, DateTimeVal, DateVal,
           TimeVal, DecimalVal, NoneVal, ListVal}

\* Python's class hierarchy: bool is a subclass of int, datetime of date
Mro(t) ==
    CASE t = "bool"     -> {"bool", "int"}
      [] t = "datetime" -> {"datetime", "date"}
      [] OTHER          -> {t}

\* isinstance(val, classes), classes a set of type names
IsInstance(val, classes) == Mro(val.type) \cap classes # {}

-----------------------------------------------------------------------------
(* Text helpers *)

RECURSIVE Join(_, _)
\* sep.join(parts)
Join(parts, sep) ==
    IF parts = <<>> THEN ""
    ELSE IF Len(parts) = 1 THEN parts[1]
    ELSE parts[1] \o sep \o Join(Tail(parts), sep)

RECURSIVE Zeros(_)
Zeros(k) == IF k <= 0 THEN "" ELSE "0" \o Zeros(k - 1)

RECURSIVE Digits(_)
\* the digit string of a sequence of decimal digits
Digits(ds) == IF ds = <<>> THEN "" ELSE ToString(ds[1]) \o Digits(Tail(ds))

\* "%0<w>d" % k
Pad(k, w) == Zeros(w - Len(ToString(k))) \o ToString(k)

\* datetime.date.isoformat(): YYYY-MM-DD
DateIso(y, m, d) == Pad(y, 4) \o "-" \o Pad(m, 2) \o "-" \o Pad(d, 2)

\* datetime.time.isoformat(): HH:MM:SS, with .ffffff when microsecond # 0
TimeIso(h, mi, sec, us) ==
    Pad(h, 2) \o ":" \o Pad(mi, 2) \o ":" \o Pad(sec, 2)
        \o (IF us = 0 THEN "" ELSE "." \o Pad(us, 6))

\* value.isoformat(), dispatched on the runtime type
IsoFormat(val) ==
    CASE val.type = "datetime" ->
            Str(DateIso(val.n[1], val.n[2], val.n[3]) \o "T"
                \o TimeIso(val.n[4], val.n[5], val.n[6], val.n[7]))
      [] val.type = "date" -> Str(DateIso(val.n[1], val.n[2], val.n[3]))
      [] val.type = "time" ->
            Str(TimeIso(val.n[1], val.n[2], val.n[3], val.n[4]))

\* str(Decimal): Decimal.__str__ for a finite number
DecimalStr(val) ==
    LET sign == IF val.n[1] = 1 THEN "-" ELSE ""
        exp == val.n[2]
        int == SubSeq(val.n, 3, Len(val.n))
        leftdigits == exp + Len(int)
        dotplace == IF exp <= 0 /\ leftdigits > -6 THEN leftdigits ELSE 1
        intpart ==
            IF dotplace <= 0 THEN "0"
            ELSE IF dotplace >= Len(int)
                 THEN Digits(int) \o Zeros(dotplace - Len(int))
                 ELSE Digits(SubSeq(int, 1, dotplace))
        fracpart ==
            IF dotplace <= 0 THEN "." \o Zeros(-dotplace) \o Digits(int)
            ELSE IF dotplace >= Len(int) THEN ""
                 ELSE "." \o Digits(SubSeq(int, dotplace + 1, Len(int)))
        e == leftdigits - dotplace
        exppart ==
            IF e = 0 THEN ""
            ELSE "E" \o (IF e > 0 THEN "+" \o ToString(e)
                                  ELSE "-" \o ToString(-e))
    IN Str(sign \o intpart \o fracpart \o exppart)


-----------------------------------------------------------------------------
(* Exceptions, return values and the record of one call *)

Exc(t, m) == [type |-> t, msg |-> m]
NoExc == Exc("", "")

\* what bigquery.Client(project=...) can raise
ClientErrors == {Exc("DefaultCredentialsError", "credentials not found")}
\* what a warehouse call can raise
ApiErrors == {Exc("BadRequest", "400 bad request")}
NotFound(table_id) == Exc("NotFound", "404 Not found: Table " \o table_id)

RetStr(s)  == [kind |-> "str", str |-> s, list |-> <<>>]
RetList(l) == [kind |-> "list", str |-> "", list |-> l]
NoReturn   == [kind |-> "none", str |-> "", list |-> <<>>]

\* a request to the warehouse, sent through a client of the default
\* project.  dataset is the dataset the tool itself names, in the
\* reference it passes or in the statement it builds: none for the query
\* tool, whose statement is the caller's (its target is empty)
Request(api, target, sql, params, rows) ==
    [api |-> api, target |-> target, sql |-> sql, params |-> params, rows |-> rows,
     project |-> DEFAULT_PROJECT_ID,
     dataset |-> IF api = "query" /\ target = "" THEN "" ELSE DEFAULT_DATASET_ID]

\* the outcome of the body of a tool: its effects, the value it returns
\* and the exception that left the body (NoExc if it returned)
Outcome(c, b, rq, r, x) ==
    [clients |-> c, built |-> b, requests |-> rq, ret |-> r, exc |-> x]

\* "except Exception as e: return <handled>" around a body
Except(body, handled) ==
    IF body.exc = NoExc THEN body
    ELSE [body EXCEPT !.ret = handled, !.exc = NoExc]

\* the text of a where_clause, modelled as a sequence of characters
Text(chars) == Join(chars, "")

\* the backquote character of the SQL text (a TLA+ string cannot hold one)
BQ == "~"

\* the f-string of the fully qualified, backquoted table name
FullTableName(table_id) ==
    BQ \o DEFAULT_PROJECT_ID \o "." \o DEFAULT_DATASET_ID \o "." \o table_id \o BQ

\* JobErrorDetails that keeps the first message only
JobErrorDetailsFirstOnly(errors) == errors[1]

\* "; ".join([err['message'] for err in query_job.errors])
JobErrorDetails(errors) == Join(errors, "; ")

-----------------------------------------------------------------------------
(* update_bigquery_records *)

UpdateEmptyMessage == "Error: set_values dictionary cannot be empty."

\* BqType with a final else that falls back to STRING
BqTypeDefaultsToString(val) ==
    IF IsInstance(val, {"bytes"}) THEN "BYTES"
    ELSE IF IsInstance(val, {"int"}) THEN "INT64"
    ELSE IF IsInstance(val, {"float"}) THEN "FLOAT64"
    ELSE IF IsInstance(val, {"datetime"}) THEN "TIMESTAMP"
    ELSE IF IsInstance(val, {"date"}) THEN "DATE"
    ELSE IF IsInstance(val, {"time"}) THEN "TIME"
    ELSE IF IsInstance(val, {"Decimal"}) THEN "NUMERIC"
    ELSE "STRING"

\* the if/elif chain that infers the parameter type; "" stands for None
BqType(val) ==
    IF IsInstance(val, {"str"}) THEN "STRING"
    ELSE IF IsInstance(val, {"bytes"}) THEN "BYTES"
    ELSE IF IsInstance(val, {"int"}) THEN "INT64"
    ELSE IF IsInstance(val, {"float"}) THEN "FLOAT64"
    ELSE IF IsInstance(val, {"bool"}) THEN "BOOL"
    ELSE IF IsInstance(val, {"datetime"}) THEN "TIMESTAMP"
    ELSE IF IsInstance(val, {"date"}) THEN "DATE"
    ELSE IF IsInstance(val, {"time"}) THEN "TIME"
    ELSE IF IsInstance(val, {"Decimal"}) THEN "NUMERIC"
    ELSE ""

UnsupportedType(val, col) ==
    Exc("TypeError",
        "Unsupported data type '" \o val.type \o "' for column '" \o col \o "'. "
        \o "Supported types: str, bytes, int, float, bool, datetime.datetime, "
        \o "datetime.date, datetime.time, Decimal.")

\* bigquery.ScalarQueryParameter(param_name, bq_type, val)
ScalarQueryParameter(name, type, val) ==
    [name |-> name, type_ |-> type, value |-> val]

RECURSIVE SetLoop(_, _, _, _)
\* the loop over enumerate(set_values.items()), from position idx (1-based
\* here, the code's idx is idx - 1): the clauses and parameters accumulated,
\* or the TypeError raised at the first value without a type
SetLoop(set_values, idx, set_clauses, query_params) ==
    IF idx > Len(set_values)
    THEN [exc |-> NoExc, set_clauses |-> set_clauses, query_params |-> query_params]
    ELSE LET col == set_values[idx].col
             val == set_values[idx].val
             param_name == "p_set_val_" \o ToString(idx - 1)
             clauses == Append(set_clauses, BQ \o col \o BQ \o " = @" \o param_name)
             bq_type == BqType(val)
         IN IF bq_type = ""
            THEN [exc |-> UnsupportedType(val, col), set_clauses |-> clauses,
                  query_params |-> query_params]
            ELSE SetLoop(set_values, idx + 1, clauses,
                         Append(query_params,
                                ScalarQueryParameter(param_name, bq_type, val)))

\* UpdateQuery that puts TRUE in the place of an empty where_clause
UpdateQueryDefaultsWhere(table_id, set_clauses, where_clause) ==
    "UPDATE " \o FullTableName(table_id) \o " SET " \o Join(set_clauses, ", ")
        \o " WHERE " \o (IF where_clause = <<>> THEN "TRUE" ELSE Text(where_clause))

\* UpdateQuery that joins the assignments with AND
UpdateQueryJoinsWithAnd(table_id, set_clauses, where_clause) ==
    "UPDATE " \o FullTableName(table_id) \o " SET " \o Join(set_clauses, " AND ")
        \o " WHERE " \o Text(where_clause)

UpdateQuery(table_id, set_clauses, where_clause) ==
    "UPDATE " \o FullTableName(table_id) \o " SET " \o Join(set_clauses, ", ")
        \o " WHERE " \o Text(where_clause)

\* UpdateHandler with a handler that lets a TypeError through
UpdateHandlerPassesTypeError(table_id, body) ==
    IF body.exc.type = "TypeError" THEN body
    ELSE Except(body,
                RetStr("Error updating table " \o table_id \o ": " \o body.exc.msg))

\* the except clause of update_bigquery_records
UpdateHandler(table_id, body) ==
    Except(body, RetStr("Error updating table " \o table_id \o ": " \o body.exc.msg))

\* the try body of update_bigquery_records
UpdateBody(table_id, set_values, where_clause, e) ==
    IF e.client # NoExc
    THEN Outcome(1, <<>>, <<>>, NoReturn, e.client)
    ELSE IF set_values = <<>>
    THEN Outcome(1, <<>>, <<>>, RetStr(UpdateEmptyMessage), NoExc)
    ELSE LET loop == SetLoop(set_values, 1, <<>>, <<>>)
             query == UpdateQuery(table_id, loop.set_clauses, where_clause)
             req == Request("query", table_id, query, loop.query_params, <<>>)
         IN IF loop.exc # NoExc
            THEN Outcome(1, <<>>, <<>>, NoReturn, loop.exc)
            ELSE IF e.call # NoExc
            THEN Outcome(1, <<query>>, <<req>>, NoReturn, e.call)
            ELSE IF e.errors # <<>>
            THEN Outcome(1, <<query>>, <<req>>,
                         RetStr("Error updating table " \o table_id \o ": "
                                \o JobErrorDetails(e.errors)), NoExc)
            ELSE Outcome(1, <<query>>, <<req>>,
                         RetStr("Successfully updated " \o ToString(e.affected)
                                \o " rows in table " \o table_id \o "."), NoExc)

update_bigquery_records(table_id, set_values, where_clause, e) ==
    UpdateHandler(table_id, UpdateBody(table_id, set_values, where_clause, e))

-----------------------------------------------------------------------------
(* delete_bigquery_records *)

DeleteRefusal ==
    "Error: where_clause cannot be empty. To delete all rows, explicitly "
    \o "provide a condition like '1=1' (use with extreme caution)."

Whitespace == {" ", "\t"}

RECURSIVE LStrip(_)
LStrip(chars) ==
    IF chars # <<>> /\ Head(chars) \in Whitespace THEN LStrip(Tail(chars))
    ELSE chars

RECURSIVE RStrip(_)
RStrip(chars) ==
    IF chars # <<>> /\ chars[Len(chars)] \in Whitespace
    THEN RStrip(SubSeq(chars, 1, Len(chars) - 1))
    ELSE chars

\* str.strip()
Strip(chars) == RStrip(LStrip(chars))

\* DeleteRefuses without the strip() test
DeleteRefusesEmptyOnly(where_clause) == where_clause = <<>>

\* not where_clause or not where_clause.strip()
DeleteRefuses(where_clause) == where_clause = <<>> \/ Strip(where_clause) = <<>>

DeleteQuery(table_id, where_clause) ==
    "DELETE FROM " \o FullTableName(table_id) \o " WHERE " \o Text(where_clause)

\* DeleteHandler that lets the exception through
DeleteHandlerReraises(table_id, body) == body

DeleteHandler(table_id, body) ==
    Except(body,
           RetStr("Error deleting from table " \o table_id \o ": " \o body.exc.msg))

DeleteBody(table_id, where_clause, e) ==
    LET query == DeleteQuery(table_id, where_clause)
        req == Request("query", table_id, query, <<>>, <<>>)
    IN IF e.client # NoExc
       THEN Outcome(1, <<>>, <<>>, NoReturn, e.client)
       ELSE IF e.call # NoExc
       THEN Outcome(1, <<query>>, <<req>>, NoReturn, e.call)
       ELSE IF e.errors # <<>>
       THEN Outcome(1, <<query>>, <<req>>,
                    RetStr("Error deleting from table " \o table_id \o ": "
                           \o JobErrorDetails(e.errors)), NoExc)
       ELSE Outcome(1, <<query>>, <<req>>,
                    RetStr("Successfully deleted " \o ToString(e.affected)
                           \o " rows from table " \o table_id \o "."), NoExc)

delete_bigquery_records(table_id, where_clause, e) ==
    IF DeleteRefuses(where_clause)
    THEN Outcome(0, <<>>, <<>>, RetStr(DeleteRefusal), NoExc)
    ELSE DeleteHandler(table_id, DeleteBody(table_id, where_clause, e))

-----------------------------------------------------------------------------
(* run_bigquery_sql_query *)

\* QueryConvert without the Decimal branch
QueryConvertKeepsDecimal(value) ==
    IF IsInstance(value, {"date", "datetime"}) THEN IsoFormat(value)
    ELSE value

\* the conversion of one result value
QueryConvert(value) ==
    IF IsInstance(value, {"date", "datetime"}) THEN IsoFormat(value)
    ELSE IF IsInstance(value, {"Decimal"}) THEN DecimalStr(value)
    ELSE value

\* the loops that build processed_rows; a row is a mapping in iteration
\* order, <<[key, value], ...>>
QueryProcessRows(results) ==
    [r \in 1..Len(results) |->
        [i \in 1..Len(results[r]) |->
            [key |-> results[r][i].key,
             value |-> QueryConvert(results[r][i].value)]]]

QueryHandler(body) == Except(body, RetList(<<>>))

\* QueryBody that submits the query a second time when the job fails
QueryBodyRetries(query, e) ==
    LET req == Request("query", "", query, <<>>, <<>>)
    IN IF e.client # NoExc
       THEN Outcome(1, <<>>, <<>>, NoReturn, e.client)
       ELSE IF e.call # NoExc
       THEN Outcome(1, <<>>, <<req, req>>, NoReturn, e.call)
       ELSE IF e.iter # NoExc
       THEN Outcome(1, <<>>, <<req>>, NoReturn, e.iter)
       ELSE Outcome(1, <<>>, <<req>>,
                    RetList(QueryProcessRows(e.rows)), NoExc)

QueryBody(query, e) ==
    LET req == Request("query", "", query, <<>>, <<>>)
    IN IF e.client # NoExc
       THEN Outcome(1, <<>>, <<>>, NoReturn, e.client)
       ELSE IF e.call # NoExc
       THEN Outcome(1, <<>>, <<req>>, NoReturn, e.call)
       ELSE IF e.iter # NoExc
       THEN Outcome(1, <<>>, <<req>>, NoReturn, e.iter)
       ELSE Outcome(1, <<>>, <<req>>,
                    RetList(QueryProcessRows(e.rows)), NoExc)

run_bigquery_sql_query(query, e) == QueryHandler(QueryBody(query, e))

-----------------------------------------------------------------------------
(* insert_bigquery_rows *)

InsertEmptyMessage == "Error: 'rows' list cannot be empty."

\* InsertRefuses with the guard left out
InsertNeverRefuses(rows) == FALSE

\* not rows
InsertRefuses(rows) == rows = <<>>

\* the conversion of one input value
InsertConvert(value) ==
    IF IsInstance(value, {"Decimal"}) THEN DecimalStr(value)
    ELSE IF IsInstance(value, {"date", "datetime", "time"}) THEN IsoFormat(value)
    ELSE value

\* the loops that build processed_rows_for_json
InsertProcessRows(rows) ==
    [r \in 1..Len(rows) |->
        [i \in 1..Len(rows[r]) |->
            [key |-> rows[r][i].key, value |-> InsertConvert(rows[r][i].value)]]]

\* InsertErrorDetails that reports the first entry only
InsertErrorDetailsFirstOnly(errors) ==
    IF errors = <<>> THEN <<>>
    ELSE <<"Row index " \o ToString(errors[1].index) \o ": " \o errors[1].errors>>

RECURSIVE InsertErrorDetails(_)
\* the list of f"Row index {entry['index']}: {entry['errors']}"
InsertErrorDetails(errors) ==
    IF errors = <<>> THEN <<>>
    ELSE <<"Row index " \o ToString(errors[1].index) \o ": " \o errors[1].errors>>
         \o InsertErrorDetails(Tail(errors))

InsertHandler(table_id, body) ==
    Except(body,
           RetStr("Error inserting rows into table " \o table_id \o ": "
                  \o body.exc.msg))

InsertBody(table_id, rows, e) ==
    LET processed == InsertProcessRows(rows)
        req == Request("insert_rows_json", table_id, "", <<>>, processed)
    IN IF e.client # NoExc
       THEN Outcome(1, <<>>, <<>>, NoReturn, e.client)
       ELSE IF e.call # NoExc
       THEN Outcome(1, <<>>, <<req>>, NoReturn, e.call)
       ELSE IF e.insert_errors = <<>>
       THEN Outcome(1, <<>>, <<req>>,
                    RetStr("Successfully inserted " \o ToString(Len(rows))
                           \o " rows into table " \o table_id \o "."), NoExc)
       ELSE Outcome(1, <<>>, <<req>>,
                    RetStr("Error inserting rows into table " \o table_id \o ": "
                           \o Join(InsertErrorDetails(e.insert_errors), "; ")),
                    NoExc)

insert_bigquery_rows(table_id, rows, e) ==
    IF InsertRefuses(rows)
    THEN Outcome(0, <<>>, <<>>, RetStr(InsertEmptyMessage), NoExc)
    ELSE InsertHandler(table_id, InsertBody(table_id, rows, e))

-----------------------------------------------------------------------------
(* get_bigquery_table_schema and list_dataset_tables *)

\* the order in which the warehouse lists the dataset's tables
TableOrder == <<"orders", "users">>

\* SchemaInfo with a loop that skips the first column
SchemaInfoSkipsFirst(schema) ==
    [i \in 1..(Len(schema) - 1) |->
        [name |-> schema[i + 1].name, type |-> schema[i + 1].field_type,
         mode |-> schema[i + 1].mode]]

\* the loop over table.schema that builds schema_info
SchemaInfo(schema) ==
    [i \in 1..Len(schema) |->
        [name |-> schema[i].name, type |-> schema[i].field_type,
         mode |-> schema[i].mode]]

SchemaHandler(body) == Except(body, RetList(<<>>))

\* wh is the warehouse at the time of the call
SchemaBody(table_id, e, wh) ==
    LET req == Request("get_table", table_id, "", <<>>, <<>>)
    IN IF e.client # NoExc
       THEN Outcome(1, <<>>, <<>>, NoReturn, e.client)
       ELSE IF e.call # NoExc
       THEN Outcome(1, <<>>, <<req>>, NoReturn, e.call)
       ELSE IF ~wh[table_id].exists
       THEN Outcome(1, <<>>, <<req>>, NoReturn, NotFound(table_id))
       ELSE Outcome(1, <<>>, <<req>>,
                    RetList(SchemaInfo(wh[table_id].schema)), NoExc)

get_bigquery_table_schema(table_id, e, wh) ==
    SchemaHandler(SchemaBody(table_id, e, wh))

\* [table.table_id for table in tables]
ListedTableIds(wh) == SelectSeq(TableOrder, LAMBDA t : wh[t].exists)

\* ListHandler that lets the exception through
ListHandlerReraises(body) == body

ListHandler(body) == Except(body, RetList(<<>>))

ListBody(e, wh) ==
    LET req == Request("list_tables", DEFAULT_DATASET_ID, "", <<>>, <<>>)
    IN IF e.client # NoExc
       THEN Outcome(1, <<>>, <<>>, NoReturn, e.client)
       ELSE IF e.call # NoExc
       THEN Outcome(1, <<>>, <<req>>, NoReturn, e.call)
       ELSE IF e.iter # NoExc
       THEN Outcome(1, <<>>, <<req>>, NoReturn, e.iter)
       ELSE Outcome(1, <<>>, <<req>>, RetList(ListedTableIds(wh)), NoExc)

list_dataset_tables(e, wh) == ListHandler(ListBody(e, wh))

-----------------------------------------------------------------------------
(* Inputs: arguments of the tools and answers of the environment *)

TableIds == {"orders", "users"}

Queries == {"SELECT 1", "SELECT * FROM t"}

\* characters of a where_clause: two kinds of whitespace and a column name
WhereChars == Whitespace \cup {"x"}

WhereClauses == UNION {[1..k -> WhereChars] : k \in 0..MaxWhereLen}

\* update_bigquery_records never inspects its where_clause: one clause of
\* each kind (empty, whitespace, a condition) is tried
UpdateWhereClauses == {<<>>, <<" ">>, <<"x">>}

\* the i-th key of a set_values mapping
ColName(i) == "c" \o ToString(i)

\* set_values mappings in iteration order: <<[col, val], ...>>, keys distinct
SetValues ==
    UNION {{[i \in 1..k |-> [col |-> ColName(i), val |-> f[i]]] :
              f \in [1..k -> Values \ {NoneVal}]} : k \in 0..MaxSetValues}

\* the column names of rows
RowKeys == <<"id", "v">>

\* rows over the first k columns, the i-th column holding cols[i] or NULL
RowsOf(cols) ==
    {[i \in 1..Len(cols) |-> [key |-> RowKeys[i], value |-> g[i]]] :
        g \in {h \in [1..Len(cols) -> Values] :
                 \A i \in 1..Len(cols) : h[i] \in {cols[i], NoneVal}}}

\* lists of at most MaxRows rows with the same columns
RowLists ==
    UNION {UNION {UNION {[1..r -> RowsOf(cols)] : r \in 0..MaxRows} :
                    cols \in [1..k -> Values]} : k \in 1..Len(RowKeys)}

\* query_job.errors of a job that completed: the messages of its entries
JobErrors == <<"quota exceeded", "syntax error">>

\* num_dml_affected_rows of a completed job
Affected == 0..MaxAffected

\* an entry of the list insert_rows_json returns, for row index i
InsertError(i) == [index |-> i, errors |-> "[{'reason': 'invalid'}]"]

Args(table_id, query, rows, set_values, where_clause) ==
    [table_id |-> table_id, query |-> query, rows |-> rows,
     set_values |-> set_values, where_clause |-> where_clause]
NoArgs == Args("", "", <<>>, <<>>, <<>>)

\* the environment's answers during one call: the exception raised by the
\* client constructor, the exception raised by the warehouse call, the
\* exception raised while the result is iterated, the rows of a query
\* result, the errors of a completed job, the per-row errors of a bulk
\* insert, the rows a DML job affected
Env(client, call, iter, rows, job_errors, insert_errors, affected) ==
    [client |-> client, call |-> call, iter |-> iter, rows |-> rows,
     errors |-> job_errors, insert_errors |-> insert_errors,
     affected |-> affected]
NoEnv == Env(NoExc, NoExc, NoExc, <<>>, <<>>, <<>>, 0)

\* the client cannot be constructed, or the warehouse call raises
FailingEnvs ==
    {[NoEnv EXCEPT !.client = x] : x \in ClientErrors}
    \cup {[NoEnv EXCEPT !.call = x] : x \in ApiErrors}

\* answers to an update or delete: a failure, or the job completes with
\* errors, or it completes and affects some rows
DmlEnvs ==
    FailingEnvs
    \cup {[NoEnv EXCEPT !.errors = JobErrors]}
    \cup {[NoEnv EXCEPT !.affected = n] : n \in Affected}

\* answers to an insert of rows: a failure, no errors, an error for the
\* first row, an error for every row
InsertEnvs(rows) ==
    FailingEnvs
    \cup {NoEnv}
    \cup {[NoEnv EXCEPT !.insert_errors = <<InsertError(0)>>]}
    \cup {[NoEnv EXCEPT !.insert_errors =
                            [i \in 1..Len(rows) |-> InsertError(i - 1)]]}

\* answers to a query: a failure, or a result whose iteration may fail
QueryEnvs ==
    FailingEnvs
    \cup {[NoEnv EXCEPT !.rows = rows, !.iter = x] :
            rows \in RowLists, x \in {NoExc} \cup ApiErrors}

\* answers to a metadata fetch
SchemaEnvs == FailingEnvs \cup {NoEnv}

\* answers to a listing, whose iteration may fail
ListEnvs == SchemaEnvs \cup {[NoEnv EXCEPT !.iter = x] : x \in ApiErrors}

\* e holds no answer to a question the call never asked
Consulted(e, out) ==
    /\ out.clients = 0 => e.client = NoExc
    /\ out.requests = <<>> => e = [NoEnv EXCEPT !.client = e.client]

\* the columns a table of the dataset can have
FieldPool ==
    {[name |-> "id", field_type |-> "INTEGER", mode |-> "REQUIRED"],
     [name |-> "day", field_type |-> "DATE", mode |-> "NULLABLE"]}

\* table.schema: columns in order, names distinct
Schemas ==
    {s \in UNION {[1..k -> FieldPool] : k \in 0..Cardinality(FieldPool)} :
        \A i, j \in 1..Len(s) : i # j => s[i].name # s[j].name}

-----------------------------------------------------------------------------
(* The state machine *)

InitialWarehouse == [t \in TableIds |-> [exists |-> FALSE, schema |-> <<>>]]

\* the invocations that can be in progress at the same time
Invocations == {1, 2}

\* the frame of an invocation: its position, what it was called with, what
\* the environment answers, what it has sent and returned, and its local
\* names: client, the lists it accumulates (acc, params) and its statement
IdleFrame ==
    [pc |-> "idle", tool |-> "", args |-> NoArgs, env |-> NoEnv, idx |-> 0,
     resp |-> <<>>, requests |-> <<>>, ret |-> NoReturn, raised |-> "",
     client |-> 0, acc |-> <<>>, params |-> <<>>, query |-> ""]

Init ==
    /\ pc = "idle"
    /\ tool = ""
    /\ args = NoArgs
    /\ env = NoEnv
    /\ clients = 0
    /\ built = <<>>
    /\ requests = <<>>
    /\ ret = NoReturn
    /\ raised = ""
    /\ warehouse = InitialWarehouse
    /\ module = ModuleLoad("proj", "ds")
    /\ frames = [i \in Invocations |-> IdleFrame]

\* tool t, called with a while the environment answers e, ends as out
Finish(t, a, e, out) ==
    /\ Consulted(e, out)
    /\ pc' = "done"
    /\ tool' = t
    /\ args' = a
    /\ env' = e
    /\ clients' = out.clients
    /\ built' = out.built
    /\ requests' = out.requests
    /\ ret' = out.ret
    /\ raised' = out.exc.type
    /\ UNCHANGED <<warehouse, module, frames>>

ListTables ==
    /\ pc = "idle"
    /\ "list_dataset_tables" \in module.defined
    /\ \E e \in ListEnvs :
           Finish("list_dataset_tables", NoArgs, e,
                  list_dataset_tables(e, warehouse))

GetSchema ==
    /\ pc = "idle"
    /\ "get_bigquery_table_schema" \in module.defined
    /\ \E table_id \in TableIds, e \in SchemaEnvs :
           Finish("get_bigquery_table_schema",
                  Args(table_id, "", <<>>, <<>>, <<>>), e,
                  get_bigquery_table_schema(table_id, e, warehouse))

RunQuery ==
    /\ pc = "idle"
    /\ "run_bigquery_sql_query" \in module.defined
    /\ \E query \in Queries, e \in QueryEnvs :
           Finish("run_bigquery_sql_query", Args("", query, <<>>, <<>>, <<>>), e,
                  run_bigquery_sql_query(query, e))

InsertRows ==
    /\ pc = "idle"
    /\ "insert_bigquery_rows" \in module.defined
    /\ \E table_id \in TableIds, rows \in RowLists :
         \E e \in InsertEnvs(rows) :
           Finish("insert_bigquery_rows", Args(table_id, "", rows, <<>>, <<>>), e,
                  insert_bigquery_rows(table_id, rows, e))

UpdateRecords ==
    /\ pc = "idle"
    /\ "update_bigquery_records" \in module.defined
    /\ \E table_id \in TableIds, set_values \in SetValues,
          where_clause \in UpdateWhereClauses, e \in DmlEnvs :
           Finish("update_bigquery_records",
                  Args(table_id, "", <<>>, set_values, where_clause), e,
                  update_bigquery_records(table_id, set_values, where_clause, e))

DeleteRecords ==
    /\ pc = "idle"
    /\ "delete_bigquery_records" \in module.defined
    /\ \E table_id \in TableIds, where_clause \in WhereClauses, e \in DmlEnvs :
           Finish("delete_bigquery_records",
                  Args(table_id, "", <<>>, <<>>, where_clause), e,
                  delete_bigquery_records(table_id, where_clause, e))

\* the agent framework takes the result; nothing of the call remains
Return ==
    /\ pc = "done"
    /\ pc' = "idle"
    /\ tool' = ""
    /\ args' = NoArgs
    /\ env' = NoEnv
    /\ clients' = 0
    /\ built' = <<>>
    /\ requests' = <<>>
    /\ ret' = NoReturn
    /\ raised' = ""
    /\ UNCHANGED <<warehouse, module, frames>>

\* between calls, the dataset's owner creates a table or replaces its schema
PutTable ==
    /\ pc = "idle"
    /\ \E t \in TableIds, s \in Schemas :
           warehouse' = [warehouse EXCEPT ![t] = [exists |-> TRUE, schema |-> s]]
    /\ UNCHANGED <<pc, tool, args, env, clients, built, requests, ret, raised,
                   module, frames>>

\* between calls, the dataset's owner drops a table
DropTable ==
    /\ pc = "idle"
    /\ \E t \in TableIds :
           /\ warehouse[t].exists
           /\ warehouse' = [warehouse EXCEPT ![t] = InitialWarehouse[t]]
    /\ UNCHANGED <<pc, tool, args, env, clients, built, requests, ret, raised,
                   module, frames>>

\* the three read tools, over a dataset that changes between calls
NextRead == ListTables \/ GetSchema \/ RunQuery \/ Return \/ PutTable \/ DropTable

SpecRead == Init /\ [][NextRead]_vars

\* the three write tools
NextWrite == InsertRows \/ UpdateRecords \/ DeleteRecords \/ Return

SpecWrite == Init /\ [][NextWrite]_vars

Next ==
    \/ ListTables \/ GetSchema \/ RunQuery
    \/ InsertRows \/ UpdateRecords \/ DeleteRecords
    \/ Return \/ PutTable \/ DropTable

Spec == Init /\ [][Next]_vars

\* values the environment can hold for DEFAULT_PROJECT_ID and for
\* DEFAULT_DATASET_ID when the module is loaded
EnvProjects == {Unset, "", "proj", "p2"}
EnvDatasets == {Unset, "", "ds"}

\* the interpreter runs the module body
LoadModule ==
    /\ module.state = "unloaded"
    /\ \E project \in EnvProjects, dataset \in EnvDatasets :
           module' = ModuleLoad(project, dataset)
    /\ UNCHANGED <<pc, tool, args, env, clients, built, requests, ret, raised,
                   warehouse, frames>>

InitModule ==
    /\ pc = "idle"
    /\ tool = ""
    /\ args = NoArgs
    /\ env = NoEnv
    /\ clients = 0
    /\ built = <<>>
    /\ requests = <<>>
    /\ ret = NoReturn
    /\ raised = ""
    /\ warehouse = InitialWarehouse
    /\ module = Unloaded
    /\ frames = [i \in Invocations |-> IdleFrame]

\* the module is loaded, then the six tools are called one after another
NextModule ==
    \/ LoadModule
    \/ ListTables \/ GetSchema \/ RunQuery
    \/ InsertRows \/ UpdateRecords \/ DeleteRecords
    \/ Return

SpecModule == InitModule /\ [][NextModule]_vars

-----------------------------------------------------------------------------
(* Properties of the write tools, checked under SpecWrite *)

Done(t) == pc = "done" /\ tool = t

\* the runtime types the specification's table maps to a warehouse type
SupportedTypes ==
    {"str", "bytes", "int", "float", "bool", "datetime", "date", "time", "Decimal"}

Unsupported(set_values, i) == set_values[i].val.type \notin SupportedTypes

HasUnsupported(set_values) ==
    \E i \in 1..Len(set_values) : Unsupported(set_values, i)

\* C1 (as claimed): update_bigquery_records called with an empty set_values
\* returns the literal string "Error: set_values dictionary cannot be
\* empty.", raises nothing and sends no request, whatever the rest of its
\* arguments and whatever happens to the construction of the client.
C1_EmptySetValuesLiteral ==
    (Done("update_bigquery_records") /\ args.set_values = <<>>)
        => /\ ret = RetStr("Error: set_values dictionary cannot be empty.")
           /\ raised = ""
           /\ requests = <<>>

\* C2 (as claimed): an update whose set_values holds a value of an
\* unsupported type, and whose client was constructed, ends by raising a
\* TypeError to its caller.
C2_TypeErrorRaised ==
    (/\ Done("update_bigquery_records")
     /\ HasUnsupported(args.set_values)
     /\ env.client = NoExc)
        => raised = "TypeError"

\* C2 (amended): such an update raises nothing; it returns the string
\* "Error updating table <table_id>: Unsupported data type '<type>' for
\* column '<col>'. Supported types: ..." that names the first value of an
\* unsupported type, as the tool's own except clause catches the TypeError.
C2_TypeErrorReturned ==
    (/\ Done("update_bigquery_records")
     /\ HasUnsupported(args.set_values)
     /\ env.client = NoExc)
        => LET sv == args.set_values
               i == CHOOSE k \in 1..Len(sv) :
                       /\ Unsupported(sv, k)
                       /\ \A j \in 1..(k - 1) : ~Unsupported(sv, j)
           IN /\ raised = ""
              /\ ret = RetStr("Error updating table " \o args.table_id
                        \o ": Unsupported data type '" \o sv[i].val.type
                        \o "' for column '" \o sv[i].col \o "'. Supported types: "
                        \o "str, bytes, int, float, bool, datetime.datetime, "
                        \o "datetime.date, datetime.time, Decimal.")

\* an update met a list after a supported value and returned the error
C2_Witness ==
    /\ Done("update_bigquery_records")
    /\ Len(args.set_values) = 2
    /\ args.set_values[1].val = IntVal
    /\ args.set_values[2].val = ListVal
    /\ env.client = NoExc
    /\ raised = ""
    /\ ret.kind = "str"

\* C3: an update whose set_values holds a value of an unsupported type, at
\* any position, builds no UPDATE statement and sends no request.
C3_NoUpdateSentForUnsupported ==
    (Done("update_bigquery_records") /\ HasUnsupported(args.set_values))
        => built = <<>> /\ requests = <<>>

\* an update with the unsupported value in the middle of three, after the
\* client was constructed
C3_Witness ==
    /\ Done("update_bigquery_records")
    /\ Len(args.set_values) = MaxSetValues
    /\ ~Unsupported(args.set_values, 1)
    /\ Unsupported(args.set_values, 2)
    /\ ~Unsupported(args.set_values, MaxSetValues)
    /\ clients = 1
    /\ requests = <<>>

\* the table of the specification: runtime type -> declared parameter type
TypeTable(t) ==
    CASE t = "str" -> "STRING"
      [] t = "bytes" -> "BYTES"
      [] t = "int" -> "INT64"
      [] t = "float" -> "FLOAT64"
      [] t = "bool" -> "BOOL"
      [] t = "datetime" -> "TIMESTAMP"
      [] t = "date" -> "DATE"
      [] t = "time" -> "TIME"
      [] t = "Decimal" -> "NUMERIC"
      [] OTHER -> ""

\* C4 (as claimed): every parameter an update binds has the declared type
\* the table gives for the runtime type of its value.
C4_DeclaredTypeFollowsTable ==
    (Done("update_bigquery_records") /\ requests # <<>>)
        => /\ Len(requests[1].params) = Len(args.set_values)
           /\ \A i \in 1..Len(args.set_values) :
                 requests[1].params[i].type_
                     = TypeTable(args.set_values[i].val.type)

\* every character of the clause is whitespace (the empty clause included)
Blank(where_clause) ==
    \A i \in 1..Len(where_clause) : where_clause[i] \in {" ", "\t"}

\* C5: delete_bigquery_records called with an empty or all-whitespace
\* where_clause returns the literal refusal for every table_id, constructs
\* no client, builds no statement and sends no request.
C5_DeleteRefusesBlankWhere ==
    (Done("delete_bigquery_records") /\ Blank(args.where_clause))
        => /\ ret = RetStr("Error: where_clause cannot be empty. To delete all "
                     \o "rows, explicitly provide a condition like '1=1' "
                     \o "(use with extreme caution).")
           /\ raised = ""
           /\ clients = 0
           /\ built = <<>>
           /\ requests = <<>>

\* a delete was refused for a clause of a space and a tab
C5_Witness ==
    /\ Done("delete_bigquery_records")
    /\ args.where_clause = <<" ", "\t">>
    /\ ret.kind = "str"
    /\ clients = 0

\* C6: insert_bigquery_rows called with an empty row list returns the
\* literal string "Error: 'rows' list cannot be empty." for every table_id,
\* constructs no client and sends no request.
C6_InsertRefusesEmptyRows ==
    (Done("insert_bigquery_rows") /\ args.rows = <<>>)
        => /\ ret = RetStr("Error: 'rows' list cannot be empty.")
           /\ raised = ""
           /\ clients = 0
           /\ requests = <<>>

\* an insert of no rows into the table users has returned
C6_Witness ==
    /\ Done("insert_bigquery_rows")
    /\ args.rows = <<>>
    /\ args.table_id = "users"
    /\ ret.kind = "str"

-----------------------------------------------------------------------------
(* Properties of the read tools, checked under SpecRead; C8 under SpecWrite *)

\* the call met no failure: every answer of the environment was a success
NoFailure == env.client = NoExc /\ env.call = NoExc /\ env.iter = NoExc

\* the text the specification asks for, for the values of the model
Normalized(value) ==
    CASE value = DateVal -> Str("2000-01-01")
      [] value = DateTimeVal -> Str("2024-01-05T13:07:09")
      [] value = DecimalVal -> Str("123.456")
      [] OTHER -> value

C8_InsertConvertsLikeQuery ==
    (Done("insert_bigquery_rows") /\ requests # <<>>)
        => /\ Len(requests) = 1
           /\ Len(requests[1].rows) = Len(args.rows)
           /\ \A r \in 1..Len(args.rows) :
                 \A i \in 1..Len(args.rows[r]) :
                     requests[1].rows[r][i].value
                         = QueryConvert(args.rows[r][i].value)

\* C9: for a table whose metadata is fetched without error,
\* get_bigquery_table_schema returns one descriptor per column of the
\* warehouse's schema as it is at the call, in schema order, with the
\* column's name, field type and mode.
C9_SchemaMirrorsWarehouse ==
    (/\ Done("get_bigquery_table_schema")
     /\ NoFailure
     /\ warehouse[args.table_id].exists)
        => LET schema == warehouse[args.table_id].schema
           IN /\ raised = ""
              /\ ret.kind = "list"
              /\ Len(ret.list) = Len(schema)
              /\ \A i \in 1..Len(schema) :
                    /\ ret.list[i].name = schema[i].name
                    /\ ret.list[i].type = schema[i].field_type
                    /\ ret.list[i].mode = schema[i].mode

\* the schema of a table that was given the columns day, id after the start
\* was fetched, while the other table has another schema
C9_Witness ==
    /\ Done("get_bigquery_table_schema")
    /\ NoFailure
    /\ args.table_id = "users"
    /\ warehouse["users"].exists
    /\ Len(warehouse["users"].schema) = 2
    /\ warehouse["users"].schema[1].name = "day"
    /\ warehouse["orders"].exists
    /\ Len(warehouse["orders"].schema) = 1
    /\ Len(ret.list) = 2

ReadTools ==
    {"list_dataset_tables", "get_bigquery_table_schema", "run_bigquery_sql_query"}

\* the call failed: client construction, the warehouse call or the
\* processing of the result raised
ReadFailed ==
    \/ ~NoFailure
    \/ tool = "get_bigquery_table_schema" /\ ~warehouse[args.table_id].exists

\* the call succeeded and the warehouse had nothing to report
ReadEmpty ==
    /\ ~ReadFailed
    /\ \/ tool = "list_dataset_tables" /\ \A t \in TableIds : ~warehouse[t].exists
       \/ tool = "get_bigquery_table_schema"
            /\ warehouse[args.table_id].schema = <<>>
       \/ tool = "run_bigquery_sql_query" /\ env.rows = <<>>

\* C10: the three read tools never raise; a call that failed returns the
\* empty list, the value a call returns when the warehouse has no tables,
\* columns or rows.
C10_ReadToolsSwallowFailures ==
    (pc = "done" /\ tool \in ReadTools)
        => /\ raised = ""
           /\ ret.kind = "list"
           /\ ReadFailed => ret = RetList(<<>>)
           /\ ReadEmpty => ret = RetList(<<>>)

\* a listing of a dataset that holds tables failed while it was iterated
C10_Witness ==
    /\ Done("list_dataset_tables")
    /\ env.iter # NoExc
    /\ warehouse["orders"].exists
    /\ ret = RetList(<<>>)

-----------------------------------------------------------------------------
(* Properties of the write tools as a group, checked under SpecWrite *)

WriteTools ==
    {"insert_bigquery_rows", "update_bigquery_records", "delete_bigquery_records"}

\* client construction or the warehouse call raised
WriteFailed == env.client # NoExc \/ env.call # NoExc

\* the message of the exception that made the call fail
FailureMessage == IF env.client # NoExc THEN env.client.msg ELSE env.call.msg

\* the warehouse call was made, returned, and reported no error
CompletedClean ==
    /\ requests # <<>>
    /\ env.call = NoExc
    /\ env.errors = <<>>
    /\ env.insert_errors = <<>>

\* the start of the error string of a tool, up to its details
ErrorNaming(t, table_id) ==
    CASE t = "insert_bigquery_rows" ->
            "Error inserting rows into table " \o table_id \o ": "
      [] t = "update_bigquery_records" ->
            "Error updating table " \o table_id \o ": "
      [] t = "delete_bigquery_records" ->
            "Error deleting from table " \o table_id \o ": "

\* the success string of a tool for n rows
SuccessText(t, table_id, n) ==
    CASE t = "insert_bigquery_rows" ->
            "Successfully inserted " \o ToString(n) \o " rows into table "
                \o table_id \o "."
      [] t = "update_bigquery_records" ->
            "Successfully updated " \o ToString(n) \o " rows in table "
                \o table_id \o "."
      [] t = "delete_bigquery_records" ->
            "Successfully deleted " \o ToString(n) \o " rows from table "
                \o table_id \o "."

\* the texts that can follow the naming part of an error string in this call
ErrorDetails ==
    {env.client.msg, env.call.msg, Join(env.errors, "; "),
     Join(InsertErrorDetails(env.insert_errors), "; ")}
    \cup {UnsupportedType(args.set_values[i].val, args.set_values[i].col).msg :
            i \in 1..Len(args.set_values)}

\* the error strings that name no table: the three argument refusals
Refusals ==
    {"Error: 'rows' list cannot be empty.",
     "Error: set_values dictionary cannot be empty.",
     "Error: where_clause cannot be empty. To delete all rows, explicitly "
        \o "provide a condition like '1=1' (use with extreme caution)."}

\* C11: a write tool whose client construction or warehouse call fails
\* raises nothing and returns "Error <doing> table <table_id>: <message>";
\* it returns a "Successfully ..." string exactly when the warehouse call
\* completed without reported errors, and an "Error" string otherwise.
C11_WriteToolsReturnErrors ==
    (pc = "done" /\ tool \in WriteTools)
        => /\ raised = ""
           /\ ret.kind = "str"
           /\ WriteFailed
                => ret.str = ErrorNaming(tool, args.table_id) \o FailureMessage
           /\ CompletedClean
                => ret.str \in {SuccessText(tool, args.table_id, n) :
                                  n \in {Len(args.rows), env.affected}}
           /\ ~CompletedClean
                => ret.str \in Refusals
                       \cup {ErrorNaming(tool, args.table_id) \o d :
                               d \in ErrorDetails}

\* a delete from users failed in the warehouse call and returned the error
C11_Witness ==
    /\ Done("delete_bigquery_records")
    /\ args.table_id = "users"
    /\ env.call # NoExc
    /\ requests # <<>>
    /\ ret = RetStr("Error deleting from table users: 400 bad request")

-----------------------------------------------------------------------------
(* The statement of update_bigquery_records, checked under SpecWrite *)

RECURSIVE Assignments(_, _)
\* the SET list for the first k of the columns cols: the k-th column is
\* assigned the parameter numbered k - 1; no value takes part
Assignments(cols, k) ==
    IF k = 0 THEN ""
    ELSE (IF k = 1 THEN "" ELSE Assignments(cols, k - 1) \o ", ")
         \o "~" \o cols[k] \o "~ = @p_set_val_" \o ToString(k - 1)

\* C12: an update with a non-empty set_values of supported values, once
\* its client is constructed, submits one statement UPDATE <table> SET
\* <col> = @<param>, ... WHERE <clause>: one assignment per entry in
\* iteration order, parameter names all distinct, one bound parameter per
\* assignment with the entry's value, a text that depends on no value, and
\* the where_clause appended as given.
C12_UpdateStatementShape ==
    (/\ Done("update_bigquery_records")
     /\ args.set_values # <<>>
     /\ ~HasUnsupported(args.set_values)
     /\ env.client = NoExc)
        => LET sv == args.set_values
               cols == [i \in 1..Len(sv) |-> sv[i].col]
           IN /\ Len(requests) = 1
              /\ built = <<requests[1].sql>>
              /\ requests[1].api = "query"
              /\ requests[1].sql
                    = "UPDATE ~proj.ds." \o args.table_id \o "~ SET "
                        \o Assignments(cols, Len(sv))
                        \o " WHERE " \o Join(args.where_clause, "")
              /\ Len(requests[1].params) = Len(sv)
              /\ \A i \in 1..Len(sv) :
                    /\ requests[1].params[i].name
                          = "p_set_val_" \o ToString(i - 1)
                    /\ requests[1].params[i].value = sv[i].val
              /\ \A i, j \in 1..Len(sv) :
                    i # j => requests[1].params[i].name
                               # requests[1].params[j].name

\* an update of three columns with a where_clause of one space was submitted
C12_Witness ==
    /\ Done("update_bigquery_records")
    /\ Len(args.set_values) = MaxSetValues
    /\ ~HasUnsupported(args.set_values)
    /\ args.set_values[1].val = StrVal
    /\ args.set_values[2].val = DecimalVal
    /\ args.where_clause = <<" ">>
    /\ Len(requests) = 1
    /\ Len(requests[1].params) = MaxSetValues


-----------------------------------------------------------------------------
(* Two invocations interleaved.  Each tool runs as its statement groups:   *)
(* enter (guards, client constructor), init (the accumulators are bound to *)
(* fresh lists), loop (one iteration), build (the statement), request (the *)
(* warehouse call and what follows it up to a return or the next loop).    *)
(***************************************************************************)

\* every call shares one namespace, as if the tools kept their lists in
\* module globals
LocalsInModuleGlobals(i) == 1

\* the namespace that holds the names client, set_clauses, query_params,
\* processed_rows, schema_info, table_ids and query of invocation i: the
\* frame of that call
Locals(i) == i

\* a dataset with one table, while the two invocations run
ConcurrentWarehouse ==
    [t \in TableIds |->
        IF t = "orders"
        THEN [exists |-> TRUE,
              schema |-> <<[name |-> "id", field_type |-> "INTEGER",
                            mode |-> "REQUIRED"],
                           [name |-> "day", field_type |-> "DATE",
                            mode |-> "NULLABLE"]>>]
        ELSE InitialWarehouse[t]]

ConcurrentRows ==
    <<<<[key |-> "id", value |-> IntVal], [key |-> "v", value |-> DecimalVal]>>,
      <<[key |-> "id", value |-> IntVal], [key |-> "v", value |-> DateVal]>>>>

Call(t, a, e) == [tool |-> t, args |-> a, env |-> e]

\* the calls the two invocations choose from: each tool, ending in each of
\* its ways
ConcurrentCalls ==
    {Call("list_dataset_tables", NoArgs, e) :
        e \in {NoEnv, [NoEnv EXCEPT !.iter = Exc("ServerError", "503 unavailable")]}}
    \cup {Call("get_bigquery_table_schema", Args(t, "", <<>>, <<>>, <<>>), NoEnv) :
            t \in TableIds}
    \cup {Call("run_bigquery_sql_query", Args("", "SELECT 1", <<>>, <<>>, <<>>), e) :
            e \in {[NoEnv EXCEPT !.rows = ConcurrentRows]}
                  \cup {[NoEnv EXCEPT !.client = x] : x \in ClientErrors}}
    \cup {Call("insert_bigquery_rows", Args("orders", "", rows, <<>>, <<>>), e) :
            rows \in {<<>>, ConcurrentRows},
            e \in {NoEnv, [NoEnv EXCEPT !.insert_errors = <<InsertError(0)>>]}}
    \cup {Call("update_bigquery_records",
               Args("orders", "", <<>>, sv, <<"x">>), e) :
            sv \in {<<>>,
                    <<[col |-> ColName(1), val |-> StrVal],
                      [col |-> ColName(2), val |-> DateVal]>>,
                    <<[col |-> ColName(1), val |-> IntVal],
                      [col |-> ColName(2), val |-> ListVal]>>},
            e \in {[NoEnv EXCEPT !.affected = MaxAffected],
                   [NoEnv EXCEPT !.errors = JobErrors]}}
    \cup {Call("delete_bigquery_records",
               Args("users", "", <<>>, <<>>, w), e) :
            w \in {<<" ">>, <<"x">>},
            e \in {NoEnv} \cup {[NoEnv EXCEPT !.call = x] : x \in ApiErrors}}

DmlTools == {"update_bigquery_records", "delete_bigquery_records"}

\* the value the tool's except clause returns for exception x
Handled(t, table_id, x) ==
    LET body == Outcome(0, <<>>, <<>>, NoReturn, x)
    IN CASE t = "list_dataset_tables" -> ListHandler(body)
         [] t = "get_bigquery_table_schema" -> SchemaHandler(body)
         [] t = "run_bigquery_sql_query" -> QueryHandler(body)
         [] t = "insert_bigquery_rows" -> InsertHandler(table_id, body)
         [] t = "update_bigquery_records" -> UpdateHandler(table_id, body)
         [] t = "delete_bigquery_records" -> DeleteHandler(table_id, body)

\* invocation i returns r; fs is the frames before the return
Returns(fs, i, r) == [fs EXCEPT ![i].pc = "done", ![i].ret = r]

\* exception x is raised inside the try block of invocation i
Raises(fs, i, x) ==
    LET h == Handled(fs[i].tool, fs[i].args.table_id, x)
    IN [fs EXCEPT ![i].pc = "done", ![i].ret = h.ret, ![i].raised = h.exc.type]

\* bigquery.Client(...): a new object, distinct from every client in use
NewClient == CHOOSE h \in 1..(Cardinality(Invocations) + 1) :
                 \A j \in Invocations : frames[j].client # h

\* the statement group that follows the client constructor
AfterEnter(t) ==
    CASE t \in {"update_bigquery_records", "insert_bigquery_rows"} -> "init"
      [] t = "delete_bigquery_records" -> "build"
      [] OTHER -> "request"

\* the sequence a tool's loop runs over
Items(f) ==
    CASE f.tool = "update_bigquery_records" -> f.args.set_values
      [] f.tool = "insert_bigquery_rows" -> f.args.rows
      [] OTHER -> f.resp

\* a tool is invoked
Invoke(i) ==
    /\ frames[i].pc = "idle"
    /\ \E c \in ConcurrentCalls :
           frames' = [frames EXCEPT ![i] =
                         [IdleFrame EXCEPT !.pc = "enter", !.tool = c.tool,
                                           !.args = c.args, !.env = c.env]]

\* the guard before the try block, then the client constructor
Enter(i) ==
    LET f == frames[i]
    IN /\ f.pc = "enter"
       /\ frames' =
            IF f.tool = "insert_bigquery_rows" /\ InsertRefuses(f.args.rows)
            THEN Returns(frames, i, RetStr(InsertEmptyMessage))
            ELSE IF f.tool = "delete_bigquery_records"
                    /\ DeleteRefuses(f.args.where_clause)
            THEN Returns(frames, i, RetStr(DeleteRefusal))
            ELSE IF f.env.client # NoExc
            THEN Raises(frames, i, f.env.client)
            ELSE [frames EXCEPT ![Locals(i)].client = NewClient,
                                ![i].pc = AfterEnter(f.tool)]

\* the accumulators are bound to empty lists; update_bigquery_records
\* tests set_values first
InitLocals(i) ==
    LET f == frames[i]
    IN /\ f.pc = "init"
       /\ frames' =
            IF f.tool = "update_bigquery_records" /\ f.args.set_values = <<>>
            THEN Returns(frames, i, RetStr(UpdateEmptyMessage))
            ELSE [frames EXCEPT ![Locals(i)].acc = <<>>,
                                ![Locals(i)].params = <<>>,
                                ![i].idx = 1, ![i].pc = "loop"]

\* one iteration of the tool's loop, or the statements after the loop
Loop(i) ==
    LET f == frames[i]
        l == frames[Locals(i)]
        item == Items(f)[f.idx]
        one == SetLoop(SubSeq(f.args.set_values, 1, f.idx), f.idx, l.acc, l.params)
    IN /\ f.pc = "loop"
       /\ frames' =
            IF f.idx > Len(Items(f))
            THEN CASE f.tool = "update_bigquery_records" ->
                        [frames EXCEPT ![i].pc = "build"]
                   [] f.tool = "insert_bigquery_rows" ->
                        [frames EXCEPT ![i].pc = "request"]
                   [] OTHER -> Returns(frames, i, RetList(l.acc))
            ELSE CASE f.tool = "update_bigquery_records" ->
                        IF one.exc # NoExc THEN Raises(frames, i, one.exc)
                        ELSE [frames EXCEPT ![Locals(i)].acc = one.set_clauses,
                                            ![Locals(i)].params = one.query_params,
                                            ![i].idx = f.idx + 1]
                   [] f.tool = "insert_bigquery_rows" ->
                        [frames EXCEPT ![Locals(i)].acc =
                                           l.acc \o InsertProcessRows(<<item>>),
                                       ![i].idx = f.idx + 1]
                   [] f.tool = "run_bigquery_sql_query" ->
                        [frames EXCEPT ![Locals(i)].acc =
                                           l.acc \o QueryProcessRows(<<item>>),
                                       ![i].idx = f.idx + 1]
                   [] f.tool = "get_bigquery_table_schema" ->
                        [frames EXCEPT ![Locals(i)].acc =
                                           l.acc \o SchemaInfo(<<item>>),
                                       ![i].idx = f.idx + 1]
                   [] f.tool = "list_dataset_tables" ->
                        [frames EXCEPT ![Locals(i)].acc = Append(l.acc, item),
                                       ![i].idx = f.idx + 1]

\* the statement is built from the accumulated clauses
Build(i) ==
    LET f == frames[i]
        l == frames[Locals(i)]
    IN /\ f.pc = "build"
       /\ frames' =
            [frames EXCEPT ![Locals(i)].query =
                               IF f.tool = "update_bigquery_records"
                               THEN UpdateQuery(f.args.table_id, l.acc,
                                                f.args.where_clause)
                               ELSE DeleteQuery(f.args.table_id,
                                                f.args.where_clause),
                           ![i].pc = "request"]

\* the request invocation i sends, from its local names
RequestOf(f, l) ==
    CASE f.tool \in DmlTools ->
            Request("query", f.args.table_id, l.query, l.params, <<>>)
      [] f.tool = "insert_bigquery_rows" ->
            Request("insert_rows_json", f.args.table_id, "", <<>>, l.acc)
      [] f.tool = "run_bigquery_sql_query" ->
            Request("query", "", f.args.query, <<>>, <<>>)
      [] f.tool = "get_bigquery_table_schema" ->
            Request("get_table", f.args.table_id, "", <<>>, <<>>)
      [] f.tool = "list_dataset_tables" ->
            Request("list_tables", DEFAULT_DATASET_ID, "", <<>>, <<>>)

\* what the tool returns once its DML job or its bulk insert has answered
WriteResult(f) ==
    CASE f.tool = "update_bigquery_records" ->
            IF f.env.errors # <<>>
            THEN "Error updating table " \o f.args.table_id \o ": "
                    \o JobErrorDetails(f.env.errors)
            ELSE "Successfully updated " \o ToString(f.env.affected)
                    \o " rows in table " \o f.args.table_id \o "."
      [] f.tool = "delete_bigquery_records" ->
            IF f.env.errors # <<>>
            THEN "Error deleting from table " \o f.args.table_id \o ": "
                    \o JobErrorDetails(f.env.errors)
            ELSE "Successfully deleted " \o ToString(f.env.affected)
                    \o " rows from table " \o f.args.table_id \o "."
      [] f.tool = "insert_bigquery_rows" ->
            IF f.env.insert_errors = <<>>
            THEN "Successfully inserted " \o ToString(Len(f.args.rows))
                    \o " rows into table " \o f.args.table_id \o "."
            ELSE "Error inserting rows into table " \o f.args.table_id \o ": "
                    \o Join(InsertErrorDetails(f.env.insert_errors), "; ")

\* what a read tool iterates over once the warehouse has answered
ReadResponse(f) ==
    CASE f.tool = "run_bigquery_sql_query" -> f.env.rows
      [] f.tool = "get_bigquery_table_schema" ->
            warehouse[f.args.table_id].schema
      [] f.tool = "list_dataset_tables" -> ListedTableIds(warehouse)

\* the warehouse call, and the statements up to a return or the next loop
Submit(i) ==
    LET f == frames[i]
        l == frames[Locals(i)]
        sent == [frames EXCEPT ![i].requests = Append(@, RequestOf(f, l))]
    IN /\ f.pc = "request"
       /\ frames' =
            IF f.env.call # NoExc THEN Raises(sent, i, f.env.call)
            ELSE IF f.tool = "get_bigquery_table_schema"
                    /\ ~warehouse[f.args.table_id].exists
            THEN Raises(sent, i, NotFound(f.args.table_id))
            ELSE IF f.tool \in DmlTools \cup {"insert_bigquery_rows"}
            THEN Returns(sent, i, RetStr(WriteResult(f)))
            ELSE IF f.env.iter # NoExc THEN Raises(sent, i, f.env.iter)
            ELSE [sent EXCEPT ![i].resp = ReadResponse(f),
                              ![Locals(i)].acc = <<>>,
                              ![i].idx = 1, ![i].pc = "loop"]

\* the agent framework takes the result; the frame and its names are gone
Collect(i) ==
    /\ frames[i].pc = "done"
    /\ frames' = [frames EXCEPT ![i] = IdleFrame]

InitConcurrent ==
    /\ pc = "idle"
    /\ tool = ""
    /\ args = NoArgs
    /\ env = NoEnv
    /\ clients = 0
    /\ built = <<>>
    /\ requests = <<>>
    /\ ret = NoReturn
    /\ raised = ""
    /\ warehouse = ConcurrentWarehouse
    /\ module = ModuleLoad("proj", "ds")
    /\ frames = [i \in Invocations |-> IdleFrame]

NextConcurrent ==
    /\ \E i \in Invocations :
           \/ Invoke(i) \/ Enter(i) \/ InitLocals(i) \/ Loop(i)
           \/ Build(i) \/ Submit(i) \/ Collect(i)
    /\ UNCHANGED <<pc, tool, args, env, clients, built, requests, ret, raised,
                   warehouse, module>>

SpecConcurrent == InitConcurrent /\ [][NextConcurrent]_vars

-----------------------------------------------------------------------------
(* Properties of interleaved invocations, checked under SpecConcurrent *)

\* the outcome of the same call run alone, from start to end
Alone(f) ==
    CASE f.tool = "list_dataset_tables" -> list_dataset_tables(f.env, warehouse)
      [] f.tool = "get_bigquery_table_schema" ->
            get_bigquery_table_schema(f.args.table_id, f.env, warehouse)
      [] f.tool = "run_bigquery_sql_query" ->
            run_bigquery_sql_query(f.args.query, f.env)
      [] f.tool = "insert_bigquery_rows" ->
            insert_bigquery_rows(f.args.table_id, f.args.rows, f.env)
      [] f.tool = "update_bigquery_records" ->
            update_bigquery_records(f.args.table_id, f.args.set_values,
                                    f.args.where_clause, f.env)
      [] f.tool = "delete_bigquery_records" ->
            delete_bigquery_records(f.args.table_id, f.args.where_clause, f.env)

\* C13: under every interleaving of two invocations, an invocation that has
\* ended sent the requests and returned the value that the same call, with
\* the same answers from the warehouse, sends and returns when it runs
\* alone; two invocations in progress never hold the same client; and the
\* module's two identifiers are the ones it was loaded with.
C13_InvocationsShareNothing ==
    /\ \A i \in Invocations :
          frames[i].pc = "done"
              => /\ frames[i].ret = Alone(frames[i]).ret
                 /\ frames[i].raised = Alone(frames[i]).exc.type
                 /\ frames[i].requests = Alone(frames[i]).requests
    /\ \A i, j \in Invocations :
          (i # j /\ frames[i].client # 0 /\ frames[j].client # 0)
              => frames[i].client # frames[j].client
    /\ module = ModuleLoad("proj", "ds")

\* an update has sent its two-column statement while an insert, started
\* before it, is still in the middle of its loop over the rows
C13_Witness ==
    /\ frames[1].pc = "loop"
    /\ frames[1].tool = "insert_bigquery_rows"
    /\ frames[1].idx = 2
    /\ frames[2].pc = "done"
    /\ frames[2].tool = "update_bigquery_records"
    /\ Len(frames[2].requests) = 1
    /\ Len(frames[2].requests[1].params) = 2
    /\ frames[1].client # 0
    /\ frames[2].client # 0

\* the job of the call was submitted and result() returned
JobCompleted ==
    /\ Len(requests) = 1
    /\ requests[1].api = "query"
    /\ env.client = NoExc
    /\ env.call = NoExc

\* C17: an update or delete returns its success message, which states the
\* job's number of affected rows and the table_id, only if its job was
\* submitted, completed and reports no errors, and then it does; if the job
\* completed and its error list is not empty, the tool returns the error
\* string that joins the messages of those errors with "; ".
C17_DmlSuccessOnlyAfterCleanJob ==
    (pc = "done" /\ tool \in DmlTools)
        => /\ ret.str \in {SuccessText(tool, args.table_id, n) : n \in Affected}
                 <=> (JobCompleted /\ env.errors = <<>>)
           /\ (JobCompleted /\ env.errors = <<>>)
                 => ret = RetStr(SuccessText(tool, args.table_id, env.affected))
           /\ (JobCompleted /\ env.errors # <<>>)
                 => ret = RetStr(ErrorNaming(tool, args.table_id)
                                 \o Join(env.errors, "; "))

\* an update's job completed and reported two errors
C17_Witness ==
    /\ Done("update_bigquery_records")
    /\ args.table_id = "orders"
    /\ JobCompleted
    /\ Len(env.errors) = 2
    /\ ret = RetStr("Error updating table orders: quota exceeded; syntax error")

\* C18: only delete_bigquery_records refuses an empty where_clause.  An
\* update with a non-empty set_values of supported values and an empty or
\* all-whitespace where_clause, once its client is constructed, builds the
\* UPDATE statement with the clause appended as it is and submits it; what
\* it returns is what the warehouse answers: the count of affected rows of
\* a job that completed without errors.  No call of update or insert
\* returns the refusal.
C18_UpdateNeverRefusesWhere ==
    /\ (pc = "done" /\ tool \in WriteTools \ {"delete_bigquery_records"})
          => ret.str # DeleteRefusal
    /\ (/\ Done("update_bigquery_records")
        /\ args.set_values # <<>>
        /\ ~HasUnsupported(args.set_values)
        /\ Blank(args.where_clause)
        /\ env.client = NoExc)
          => /\ Len(requests) = 1
             /\ built = <<requests[1].sql>>
             /\ requests[1].sql
                   = "UPDATE ~proj.ds." \o args.table_id \o "~ SET "
                       \o Assignments([i \in 1..Len(args.set_values)
                                         |-> args.set_values[i].col],
                                      Len(args.set_values))
                       \o " WHERE " \o Join(args.where_clause, "")
             /\ (env.call = NoExc /\ env.errors = <<>>)
                   => ret = RetStr(SuccessText(tool, args.table_id, env.affected))

\* an update with an empty where_clause was submitted and changed a row
C18_Witness ==
    /\ Done("update_bigquery_records")
    /\ args.table_id = "users"
    /\ args.where_clause = <<>>
    /\ Len(args.set_values) = 1
    /\ Len(requests) = 1
    /\ requests[1].sql = "UPDATE ~proj.ds.users~ SET ~c1~ = @p_set_val_0 WHERE "
    /\ ret = RetStr("Successfully updated 1 rows in table users.")

-----------------------------------------------------------------------------
(* Properties of all six tools, checked under SpecModule *)

\* the call's arguments pass the tool's guard on them: rows is not empty,
\* where_clause of a delete is not blank, set_values is not empty
PastGuards ==
    /\ tool = "insert_bigquery_rows" => args.rows # <<>>
    /\ tool = "delete_bigquery_records" => ~Blank(args.where_clause)
    /\ tool = "update_bigquery_records" => args.set_values # <<>>

\* C14 as stated: every invocation that gets past its argument guards opens
\* exactly one client and issues exactly one warehouse request.
C14_ExactlyOneRequest ==
    (pc = "done" /\ PastGuards) => (clients = 1 /\ Len(requests) = 1)

\* C14 (amended): an invocation calls the client constructor at most once
\* and exactly once when its arguments pass its guards; it sends at most
\* one request, and sends one exactly when its arguments pass its guards,
\* the client was constructed and, for an update, every value has a
\* supported type; a failed request is not sent again.
C14_AtMostOneRequest ==
    pc = "done"
        => /\ clients <= 1
           /\ Len(requests) <= 1
           /\ PastGuards => clients = 1
           /\ Len(requests) = 1
                 <=> /\ PastGuards
                     /\ env.client = NoExc
                     /\ ~(tool = "update_bigquery_records"
                            /\ HasUnsupported(args.set_values))

\* a query job failed: the one request was sent, and no second one
C14_Witness ==
    /\ Done("run_bigquery_sql_query")
    /\ env.call # NoExc
    /\ clients = 1
    /\ Len(requests) = 1
    /\ ret = RetList(<<>>)

\* the identifiers the tool's request must name if it targets the module's
\* project and dataset
TargetsPair(r) ==
    /\ r.project = module.DEFAULT_PROJECT_ID
    /\ r.dataset = module.DEFAULT_DATASET_ID

\* the table name the statements of update and delete must hold
PairTable ==
    "~" \o module.DEFAULT_PROJECT_ID \o "." \o module.DEFAULT_DATASET_ID \o "."
        \o args.table_id \o "~"

\* the module failed to load exactly when an identifier was missing or
\* empty, and then it defines nothing and no tool has run
LoadChecked ==
    /\ module.state = "ValueError"
          <=> /\ module.state # "unloaded"
              /\ \/ Falsy(module.DEFAULT_PROJECT_ID)
                 \/ Falsy(module.DEFAULT_DATASET_ID)
    /\ module.state # "loaded" => (module.defined = {} /\ pc = "idle")
    /\ module.state = "loaded" => module.defined = ToolNames \cup {"root_agent"}

\* C16 as stated, its last part: every tool targets the module's
\* project/dataset pair.
C16_EveryToolTargetsPair ==
    pc = "done" => \A k \in 1..Len(requests) : TargetsPair(requests[k])

\* what C16 says of a state
C16_Configured ==
    /\ LoadChecked
    /\ pc = "done"
          => /\ module.state = "loaded"
             /\ ~Falsy(module.DEFAULT_PROJECT_ID)
             /\ ~Falsy(module.DEFAULT_DATASET_ID)
             /\ \A k \in 1..Len(requests) :
                   /\ requests[k].project = module.DEFAULT_PROJECT_ID
                   /\ IF tool = "run_bigquery_sql_query"
                      THEN /\ requests[k].dataset = ""
                           /\ requests[k].sql = args.query
                      ELSE requests[k].dataset = module.DEFAULT_DATASET_ID
                   /\ tool = "delete_bigquery_records"
                         => requests[k].sql
                               = "DELETE FROM " \o PairTable \o " WHERE "
                                   \o Join(args.where_clause, "")
                   /\ tool = "update_bigquery_records"
                         => requests[k].sql
                               = "UPDATE " \o PairTable \o " SET "
                                   \o Assignments([i \in 1..Len(args.set_values)
                                                     |-> args.set_values[i].col],
                                                  Len(args.set_values))
                                   \o " WHERE " \o Join(args.where_clause, "")

\* C16 (amended): the module loads only if both identifiers are set and
\* not empty; otherwise loading fails with a ValueError, nothing is defined
\* and no tool ever runs.  Once loaded, the two identifiers never change.
\* Every request of every tool goes through a client of that project, and
\* every tool but run_bigquery_sql_query names that dataset in its request:
\* the query tool sends the caller's statement as it is and names no
\* dataset.
C16_ConfigurationRequired ==
    /\ []C16_Configured
    /\ [][module.state # "unloaded" => module' = module]_vars

\* loaded with the second project, the schema tool asked for a table of
\* that project's dataset
C16_Witness ==
    /\ Done("get_bigquery_table_schema")
    /\ module.state = "loaded"
    /\ module.DEFAULT_PROJECT_ID = "p2"
    /\ Len(requests) = 1
    /\ requests[1].project = "p2"
    /\ requests[1].dataset = "ds"

-----------------------------------------------------------------------------
(* Further properties of the write tools, checked under SpecWrite *)

\* the line the error string holds for entry k of the bulk insert's answer
RowErrorLine(k) ==
    "Row index " \o ToString(env.insert_errors[k].index) \o ": "
        \o env.insert_errors[k].errors

\* C15: when the bulk insert of a non-empty rows list returns, exactly one
\* insert_rows_json request was sent.  If its answer lists per-row errors,
\* the tool returns the error string for the table that holds, for every
\* entry in the answer's order, the entry's row index and its error
\* details, joined by "; "; if the answer is empty, it returns the success
\* message with the number of rows the caller passed.
C15_InsertReportsEveryRowError ==
    (/\ Done("insert_bigquery_rows")
     /\ args.rows # <<>>
     /\ env.client = NoExc
     /\ env.call = NoExc)
        => /\ raised = ""
           /\ Len(requests) = 1
           /\ requests[1].api = "insert_rows_json"
           /\ env.insert_errors # <<>>
                 => ret = RetStr("Error inserting rows into table "
                                 \o args.table_id \o ": "
                                 \o Join([k \in 1..Len(env.insert_errors) |->
                                             RowErrorLine(k)], "; "))
           /\ env.insert_errors = <<>>
                 => ret = RetStr("Successfully inserted "
                                 \o ToString(Len(args.rows))
                                 \o " rows into table " \o args.table_id \o ".")

\* two rows were sent and the warehouse rejected both
C15_Witness ==
    /\ Done("insert_bigquery_rows")
    /\ args.table_id = "orders"
    /\ Len(args.rows) = 2
    /\ Len(env.insert_errors) = 2
    /\ Len(requests) = 1
    /\ ret.str = "Error inserting rows into table orders: "
                 \o "Row index 0: [{'reason': 'invalid'}]; "
                 \o "Row index 1: [{'reason': 'invalid'}]"

=============================================================================
